---- MODULE Spec2Model ----
(***************************************************************************)
(* file_transpose (src/main.rs): a benchmark of five strategies that       *)
(* transpose a rows x cols byte matrix stored row-major in a flat file.    *)
(*                                                                         *)
(* The file system is modelled with inodes: `dir` maps the names that      *)
(* exist to inodes, `disk` holds every inode's bytes (an unlinked inode    *)
(* that is still open keeps its bytes), and a file handle is a record      *)
(* [ino, pos].  Bytes are integers; offsets are 0-based as in the code,    *)
(* sequences 1-based.                                                      *)
(***************************************************************************)
EXTENDS Integers, Sequences, FiniteSets, TLC

VARIABLES
    cli,        \* the Cli struct handed to _main
    dims,       \* Dimensions {size, rows, cols}
    buffCap,    \* BUFF_SIZE of buffered_disk_io_solution for this run
    fs,         \* [dir, tmp, disk]: names, scratch directory, inode contents
    hnd,        \* the open handles of _main, by variable name
    pc,         \* position of the running procedure
    ret         \* what the calls made so far returned, by call name

vars == <<cli, dims, buffCap, fs, hnd, pc, ret>>

(***************************************************************************)
(* Bounds of the model.                                                    *)
(***************************************************************************)
\* log2_size of the file any strategy is run on (size = 2^log2_size bytes)
MaxLog2 == 5
\* buffer capacities tried for buffered_disk_io_solution besides BUFF_SIZE
MaxBuffCap == 2
\* capacity of the std BufWriter of a temp file, scaled to the model's rows
WriterCap == 2
\* log2_size of the file a single call is run on with a failing transfer
MaxFaultLog2 == 3
\* log2_size handed to the dimension planning alone
MaxPlanLog2 == 29
\* log2_size and times of a whole run of _main
MaxMainLog2 == 3
MaxTimes == 2
\* length of the files handed to file_eq_assert alone
MaxCmpLen == 2
\* log2_size and number of calls of setup_file alone; the cycle of letters
\* is shorter than 2^MaxSetupLog2
MaxSetupLog2 == 7
MaxSetupCalls == 2

(***************************************************************************)
(* Program constants.                                                      *)
(***************************************************************************)
BUFF_SIZE == 1024
READER_FACTOR == 30

Min(a, b) == IF a <= b THEN a ELSE b
Max(a, b) == IF a >= b THEN a ELSE b

RECURSIVE Pow2(_)
Pow2(n) == IF n = 0 THEN 1 ELSE 2 * Pow2(n - 1)

\* a function over 1..n as an explicit tuple, so that EXCEPT, SubSeq and
\* indexing all see the same sequence
Tup(s) == s \o <<>>

Zeros(n) == Tup([k \in 1..n |-> 0])

(***************************************************************************)
(* Dimension planning, src/main.rs 80-84.                                  *)
(***************************************************************************)
\* ((size as f64).sqrt().ceil() as u64): the least r with r*r >= size.  The
\* f64 square root is correctly rounded and size < 2^31 here, so the ceiling
\* of the rounded root is the ceiling of the exact root.
RECURSIVE CeilSqrtBetween(_, _, _)
CeilSqrtBetween(size, lo, hi) ==
    \* invariant: (lo-1)^2 < size <= hi^2 ; binary search keeps r*r < 2^31
    IF lo >= hi THEN hi
    ELSE LET mid == (lo + hi) \div 2
         IN  IF mid * mid >= size
             THEN CeilSqrtBetween(size, lo, mid)
             ELSE CeilSqrtBetween(size, mid + 1, hi)

CeilSqrt(size) == CeilSqrtBetween(size, 1, Min(size, 46340))

\* u64::next_power_of_two: the least power of two >= n (1 for n = 0)
RECURSIVE NextPowFrom(_, _)
NextPowFrom(n, p) == IF p >= n THEN p ELSE NextPowFrom(n, 2 * p)

NextPowerOfTwo(n) == NextPowFrom(n, 1)

RowsOfMutant(size) == CeilSqrt(size)

RowsOf(size) == NextPowerOfTwo(CeilSqrt(size))

PlanDims(log2_size) ==
    LET size == Pow2(log2_size)
        rows == RowsOf(size)
    IN  [size |-> size, rows |-> rows, cols |-> size \div rows]

(***************************************************************************)
(* Files.                                                                  *)
(***************************************************************************)
NoFault == [kind |-> "none", at |-> 0, n |-> 0]

Handle(ino) == [ino |-> ino, pos |-> 0]
NoHandle == [ino |-> 0, pos |-> 0]

\* pread: the bytes a positional read of n bytes at off can deliver
ReadAt(content, off, n) ==
    IF off >= Len(content) THEN <<>>
    ELSE SubSeq(content, off + 1, Min(off + n, Len(content)))

\* a read into a buffer overwrites its first Len(got) bytes and leaves the rest
ReadInto(buf, got) ==
    Tup([k \in 1..Len(buf) |-> IF k <= Len(got) THEN got[k] ELSE buf[k]])

\* pwrite: data at off, the file growing (zero filled) when it has to
WriteAt(content, off, data) ==
    IF Len(data) = 0 THEN content
    ELSE Tup([k \in 1..Max(Len(content), off + Len(data)) |->
                IF k > off /\ k <= off + Len(data) THEN data[k - off]
                ELSE IF k <= Len(content) THEN content[k] ELSE 0])

SetLenMutant(content, n) == content

\* File::set_len
SetLen(content, n) ==
    Tup([k \in 1..n |-> IF k <= Len(content) THEN content[k] ELSE 0])

Exists(f, name) == name \in DOMAIN f.dir

\* OpenOptions .create(true) with or without .truncate(true): the inode of an
\* existing name is kept (and emptied under truncate), a missing name gets a
\* fresh inode.  Returns the file system and the inode.
OpenCreate(f, name, truncate) ==
    IF Exists(f, name)
    THEN [fs |-> IF truncate
                 THEN [f EXCEPT !.disk[f.dir[name]] = <<>>]
                 ELSE f,
          ino |-> f.dir[name]]
    ELSE [fs |-> [f EXCEPT !.dir = (name :> (Len(f.disk) + 1)) @@ f.dir,
                           !.disk = Append(f.disk, <<>>)],
          ino |-> Len(f.disk) + 1]

\* std::fs::rename: the target name now names the source's inode
Rename(f, from, to) ==
    [f EXCEPT !.dir = [nm \in (DOMAIN f.dir \cup {to}) \ {from} |->
                          IF nm = to THEN f.dir[from] ELSE f.dir[nm]]]

(***************************************************************************)
(* The transpose mapping of in_memory and mmap_solution:                   *)
(*     for i in 0..rows { for j in 0..cols {                               *)
(*         output[j * rows + i] = input[i * cols + j] } }                  *)
(* run as the loops run.  An index outside either buffer panics (slice     *)
(* indexing) and leaves what was stored so far.                            *)
(***************************************************************************)
DstIndexMutant(i, j, rows, cols) == i * cols + j

DstIndex(i, j, rows, cols) == j * rows + i

SrcIndexMutant(i, j, rows, cols) == j * rows + i

SrcIndex(i, j, rows, cols) == i * cols + j

\* the inner loop over j for one i; st is [ok, buf]
RECURSIVE TransposeCols(_, _, _, _, _, _)
TransposeCols(input, st, rows, cols, i, j) ==
    IF j >= cols \/ ~st.ok THEN st
    ELSE LET s == SrcIndex(i, j, rows, cols)
             dst == DstIndex(i, j, rows, cols)
         IN  IF s >= Len(input) \/ dst >= Len(st.buf)
             THEN [ok |-> FALSE, buf |-> st.buf]
             ELSE TransposeCols(input,
                      [ok |-> TRUE,
                       buf |-> [st.buf EXCEPT ![dst + 1] = input[s + 1]]],
                      rows, cols, i, j + 1)

RECURSIVE TransposeRows(_, _, _, _, _)
TransposeRows(input, st, rows, cols, i) ==
    IF i >= rows \/ ~st.ok THEN st
    ELSE TransposeRows(input, TransposeCols(input, st, rows, cols, i, 0),
                       rows, cols, i + 1)

TransposeLoop(input, output, rows, cols) ==
    TransposeRows(input, [ok |-> TRUE, buf |-> output], rows, cols, 0)

InMemoryMutant(f, h, d, fault) ==
    LET o == OpenCreate(f, "in_memory.md", TRUE)
        input_buff == ReadAt(o.fs.disk[h.ino], h.pos, Len(o.fs.disk[h.ino]))
        h1 == [h EXCEPT !.pos = h.pos + Len(input_buff)]
        t == TransposeLoop(input_buff \o Zeros(d.size - Len(input_buff)),
                           Zeros(d.size), d.rows, d.cols)
    IN  IF Len(input_buff) # d.size
        THEN [fs |-> o.fs, input |-> h1, out |-> NoHandle, status |-> "panic",
              short |-> TRUE]
        ELSE [fs |-> [o.fs EXCEPT !.disk[o.ino] = t.buf], input |-> h1,
              out |-> [ino |-> o.ino, pos |-> d.size], status |-> "ok",
              short |-> FALSE]

(***************************************************************************)
(* in_memory, src/main.rs 318-351.  `wr` is the number of bytes the one    *)
(* write call transfers (the operating system may transfer fewer than      *)
(* asked).  Returns the file system, the input handle, the output handle   *)
(* and how the call ended.                                                 *)
(***************************************************************************)
InMemory(f, h, d, fault) ==
    LET o == OpenCreate(f, "in_memory.md", TRUE)
        input_buff == ReadAt(o.fs.disk[h.ino], 0, Len(o.fs.disk[h.ino]))
        h1 == [h EXCEPT !.pos = Len(input_buff)]
        t == TransposeLoop(input_buff, Zeros(d.size), d.rows, d.cols)
        wr == IF fault.kind = "short_write" THEN Min(fault.n, d.size) ELSE d.size
        written == SubSeq(t.buf, 1, wr)
    IN  IF Len(input_buff) # d.size
        THEN [fs |-> o.fs, input |-> h1, out |-> NoHandle, status |-> "panic",
              short |-> TRUE]
        ELSE IF ~t.ok
        THEN [fs |-> o.fs, input |-> h1, out |-> NoHandle, status |-> "panic",
              short |-> FALSE]
        ELSE IF wr # d.size
        THEN [fs |-> [o.fs EXCEPT !.disk[o.ino] = written], input |-> h1,
              out |-> NoHandle, status |-> "panic", short |-> TRUE]
        ELSE [fs |-> [o.fs EXCEPT !.disk[o.ino] = written], input |-> h1,
              out |-> [ino |-> o.ino, pos |-> d.size], status |-> "ok",
              short |-> FALSE]

(***************************************************************************)
(* mmap_solution, src/main.rs 353-383.  The output is opened without       *)
(* truncation and resized; both files are mapped and the loop stores       *)
(* through the output mapping.  Mapping an empty file fails.               *)
(***************************************************************************)
MmapSolution(f, d) ==
    LET o == OpenCreate(f, "mmap.md", FALSE)
        f1 == [o.fs EXCEPT !.disk[o.ino] = SetLen(o.fs.disk[o.ino], d.size)]
        input_mmap == f1.disk[f1.dir["input_file.md"]]
        t == TransposeLoop(input_mmap, f1.disk[o.ino], d.rows, d.cols)
    IN  IF ~Exists(f, "input_file.md")
        THEN [fs |-> f, out |-> NoHandle, status |-> "err", short |-> FALSE]
        ELSE IF Len(input_mmap) = 0
        THEN [fs |-> f1, out |-> NoHandle, status |-> "err", short |-> FALSE]
        ELSE [fs |-> [f1 EXCEPT !.disk[o.ino] = t.buf],
              out |-> IF t.ok THEN Handle(o.ino) ELSE NoHandle,
              status |-> IF t.ok THEN "ok" ELSE "panic", short |-> FALSE]

(***************************************************************************)
(* What the operating system does to one transfer of a call: fault.kind    *)
(* "short_read" / "short_write" makes transfer number fault.at of that     *)
(* kind move at most fault.n bytes; "none" leaves every transfer whole.    *)
(***************************************************************************)
ReadGot(whole, fault, at) ==
    IF fault.kind = "short_read" /\ fault.at = at
    THEN SubSeq(whole, 1, Min(fault.n, Len(whole)))
    ELSE whole

WriteGot(data, fault, at) ==
    IF fault.kind = "short_write" /\ fault.at = at
    THEN SubSeq(data, 1, Min(fault.n, Len(data)))
    ELSE data

(***************************************************************************)
(* disk_io_solution, src/main.rs 386-416.  The counts read_at and write_at *)
(* return are dropped by the `?`: only an Err ends the call.               *)
(***************************************************************************)
DiskIoPath == "disk_io.md"

\* the loop over j for source row i; st is [j, out, short]
RECURSIVE DiskIoCols(_, _, _, _, _)
DiskIoCols(st, row_buf, i, d, fault) ==
    IF st.j >= d.cols THEN st
    ELSE LET data == WriteGot(<<row_buf[st.j + 1]>>, fault, i * d.cols + st.j)
         IN  DiskIoCols(
                [j |-> st.j + 1,
                 out |-> WriteAt(st.out, DstIndex(i, st.j, d.rows, d.cols), data),
                 short |-> st.short \/ Len(data) < 1],
                row_buf, i, d, fault)

\* the loop over i; st is [i, out, input_row_buf, short]
RECURSIVE DiskIoRows(_, _, _, _)
DiskIoRows(st, input, d, fault) ==
    IF st.i >= d.rows THEN st
    ELSE LET got == ReadGot(ReadAt(input, st.i * d.cols, d.cols), fault, st.i)
             buf == ReadInto(st.input_row_buf, got)
             w == DiskIoCols([j |-> 0, out |-> st.out,
                              short |-> st.short \/ Len(got) < d.cols],
                             buf, st.i, d, fault)
         IN  DiskIoRows([i |-> st.i + 1, out |-> w.out, input_row_buf |-> buf,
                         short |-> w.short],
                        input, d, fault)

DiskIoSolution(f, d, fault) ==
    LET o == OpenCreate(f, DiskIoPath, TRUE)
        f1 == [o.fs EXCEPT !.disk[o.ino] = SetLen(<<>>, d.size)]
        r == DiskIoRows([i |-> 0, out |-> f1.disk[o.ino],
                         input_row_buf |-> Zeros(d.cols), short |-> FALSE],
                        f1.disk[f1.dir["input_file.md"]], d, fault)
    IN  IF ~Exists(f, "input_file.md")
        THEN [fs |-> f, out |-> NoHandle, status |-> "err", short |-> FALSE]
        ELSE [fs |-> [f1 EXCEPT !.disk[o.ino] = r.out], out |-> Handle(o.ino),
              status |-> "ok", short |-> r.short]

(***************************************************************************)
(* std::io::BufReader::read, as buffered_disk_io_solution uses it.  The    *)
(* reader is [buf, pos, fpos]: its internal buffer, the read position in   *)
(* it and the position of the file underneath.  With an empty buffer and a *)
(* request of at least the capacity the request goes to the file; else the *)
(* buffer is refilled (one read of up to `cap` bytes) only when it is      *)
(* used up, and the call returns what the buffer holds, up to n bytes.     *)
(***************************************************************************)
NewReader == [buf |-> <<>>, pos |-> 0, fpos |-> 0]

BufReaderRead(r, content, n, cap, fault, at) ==
    IF r.pos >= Len(r.buf) /\ n >= cap
    THEN LET got == ReadGot(ReadAt(content, r.fpos, n), fault, at)
         IN  [reader |-> [buf |-> <<>>, pos |-> 0, fpos |-> r.fpos + Len(got)],
              got |-> got]
    ELSE LET fill == ReadGot(ReadAt(content, r.fpos, cap), fault, at)
             r1 == IF r.pos >= Len(r.buf)
                   THEN [buf |-> fill, pos |-> 0, fpos |-> r.fpos + Len(fill)]
                   ELSE r
             got == SubSeq(r1.buf, r1.pos + 1, Min(r1.pos + n, Len(r1.buf)))
         IN  [reader |-> [r1 EXCEPT !.pos = r1.pos + Len(got)], got |-> got]

(***************************************************************************)
(* buffered_disk_io_solution, src/main.rs 419-468.  The state of the loop  *)
(* over the source rows is st = [row_index, reader, input_row_buff,        *)
(* output_buff_buff, write_index, out, flushes, short]; BufferedRow is one *)
(* pass of its body.                                                       *)
(***************************************************************************)
BufferedPath == "disk_io.md"

ReaderCap(cap) == cap * READER_FACTOR

\* (&mut output_buff_buff, &input_row_buff).into_par_iter(): accumulator c
\* gets byte c of the row
Scatter(output_buff_buff, input_row_buff) ==
    Tup([c \in 1..Len(output_buff_buff) |->
            Append(output_buff_buff[c], input_row_buff[c])])

\* the flush: one write_at per accumulator; st is [c, out]
RECURSIVE FlushCols(_, _, _, _, _, _)
FlushCols(st, output_buff_buff, write_index, d, fault, nth) ==
    IF st.c >= Len(output_buff_buff) THEN st
    ELSE FlushCols(
            [c |-> st.c + 1,
             out |-> WriteAt(st.out, write_index + st.c * d.rows,
                             WriteGot(output_buff_buff[st.c + 1], fault,
                                      nth + st.c))],
            output_buff_buff, write_index, d, fault, nth)

FlushDueMutant(len, cap, row_index, rows) == len >= cap

FlushDue(len, cap, row_index, rows) == len >= cap \/ row_index = rows - 1

BufferedRow(st, input, d, cap, fault) ==
    LET row_index == st.row_index
        rd == BufReaderRead(st.reader, input, d.cols, ReaderCap(cap), fault,
                            row_index)
        row == ReadInto(st.input_row_buff, rd.got)
        acc == Scatter(st.output_buff_buff, row)
        short == st.short \/ Len(rd.got) < d.cols
    IN  IF FlushDue(Len(acc[1]), cap, row_index, d.rows)
        THEN [row_index |-> row_index + 1,
              reader |-> rd.reader, input_row_buff |-> row,
              output_buff_buff |-> Tup([c \in 1..d.cols |-> <<>>]),
              write_index |-> row_index + 1,
              out |-> FlushCols([c |-> 0, out |-> st.out], acc,
                                st.write_index, d, fault,
                                st.flushes * d.cols).out,
              flushes |-> st.flushes + 1,
              short |-> short \/
                        (fault.kind = "short_write"
                         /\ fault.at \in (st.flushes * d.cols)
                                         ..(st.flushes * d.cols + d.cols - 1)
                         /\ fault.n < Len(acc[1]))]
        ELSE [st EXCEPT !.row_index = row_index + 1,
                        !.reader = rd.reader, !.input_row_buff = row,
                        !.output_buff_buff = acc, !.short = short]

RECURSIVE BufferedRows(_, _, _, _, _)
BufferedRows(st, input, d, cap, fault) ==
    IF st.row_index >= d.rows THEN st
    ELSE BufferedRows(BufferedRow(st, input, d, cap, fault), input, d, cap,
                      fault)

BufferedStart(out, d) ==
    [row_index |-> 0, reader |-> NewReader, input_row_buff |-> Zeros(d.cols),
     output_buff_buff |-> Tup([c \in 1..d.cols |-> <<>>]), write_index |-> 0,
     out |-> out, flushes |-> 0, short |-> FALSE]

BufferedDiskIoSolution(f, d, cap, fault) ==
    LET o == OpenCreate(f, BufferedPath, TRUE)
        f1 == [o.fs EXCEPT !.disk[o.ino] = SetLen(<<>>, d.size)]
        st == BufferedRows(BufferedStart(f1.disk[o.ino], d),
                           f1.disk[f1.dir["input_file.md"]], d, cap, fault)
    IN  IF ~Exists(f, "input_file.md")
        THEN [fs |-> f, out |-> NoHandle, status |-> "err", short |-> FALSE]
        ELSE [fs |-> [f1 EXCEPT !.disk[o.ino] = st.out], out |-> Handle(o.ino),
              status |-> "ok", short |-> st.short]

(***************************************************************************)
(* std::io::BufWriter::write of one byte, as the temp-file writers of      *)
(* join_file_handles use it.  A writer is [ino, buf].  The byte goes to    *)
(* the buffer while it fits; a full buffer is first flushed to the file,   *)
(* and a byte as large as the whole capacity goes straight to the file.    *)
(* `inner` says whether the call wrote to the file underneath, which is    *)
(* the only way it can fail.                                               *)
(***************************************************************************)
BufWriterWrite(w, content, byte, cap) ==
    IF 1 < cap - Len(w.buf)
    THEN [w |-> [w EXCEPT !.buf = Append(w.buf, byte)], content |-> content,
          inner |-> FALSE]
    ELSE LET full == 1 > cap - Len(w.buf)
             flushed == IF full THEN content \o w.buf ELSE content
             buf1 == IF full THEN <<>> ELSE w.buf
         IN  IF 1 >= cap
             THEN [w |-> [w EXCEPT !.buf = buf1],
                   content |-> Append(flushed, byte), inner |-> TRUE]
             ELSE [w |-> [w EXCEPT !.buf = Append(buf1, byte)],
                   content |-> flushed, inner |-> full]

BufWriterFlushMutant(w, content) == content

\* BufWriter::flush, and the flush its Drop runs
BufWriterFlush(w, content) == content \o w.buf

(***************************************************************************)
(* join_file_handles, src/main.rs 470-548.  The io_result closure works on *)
(* the file system, the input handle, the writers (entry j+1 is the writer *)
(* of row-j.md) and the row buffer.                                        *)
(* fault.kind names the one step that fails, if any: "create" (opening     *)
(* row-<at>.md), "read" (the read of source row at), "scatter" (a write to *)
(* the file under a writer during source row at), "flush" and "copy"       *)
(* (of row-<at>.md), "sync"; delFail is the set of temp files whose        *)
(* remove_file fails.                                                      *)
(***************************************************************************)
TmpExists(f, i) == i \in DOMAIN f.tmp

\* OpenOptions create+truncate on temp_dir/row-<i>.md
TmpCreate(f, i) ==
    IF TmpExists(f, i)
    THEN [f EXCEPT !.disk[f.tmp[i]] = <<>>]
    ELSE [f EXCEPT !.tmp = (i :> (Len(f.disk) + 1)) @@ f.tmp,
                   !.disk = Append(f.disk, <<>>)]

TmpRemove(f, i) == [f EXCEPT !.tmp = [k \in DOMAIN f.tmp \ {i} |-> f.tmp[k]]]

\* dropping the writers flushes what each still buffers; st is [j, fs]
RECURSIVE DropWriters(_, _)
DropWriters(st, writers) ==
    IF st.j > Len(writers) THEN st.fs
    ELSE DropWriters(
            [j |-> st.j + 1,
             fs |-> [st.fs EXCEPT !.disk[writers[st.j].ino] =
                        BufWriterFlush(writers[st.j],
                                       st.fs.disk[writers[st.j].ino])]],
            writers)

Dropped(f, writers) == DropWriters([j |-> 1, fs |-> f], writers)

\* lines 488-500: open row-0.md .. row-(rows-1).md; st is [i, ok, fs, writers]
RECURSIVE JoinCreate(_, _, _)
JoinCreate(st, d, fault) ==
    IF st.i >= d.rows \/ ~st.ok THEN st
    ELSE IF fault.kind = "create" /\ fault.at = st.i
    THEN [st EXCEPT !.ok = FALSE]
    ELSE LET f1 == TmpCreate(st.fs, st.i)
         IN  JoinCreate(
                [i |-> st.i + 1, ok |-> TRUE, fs |-> f1,
                 writers |-> Append(st.writers,
                                    [ino |-> f1.tmp[st.i], buf |-> <<>>])],
                d, fault)

\* (&mut row_buf, &mut new_row_file_handles).into_par_iter(): the zip is as
\* long as the shorter of the two; writer j gets byte j of the row.
\* st is [j, fs, writers, touched]
RECURSIVE ScatterRow(_, _)
ScatterRow(st, row_buf) ==
    IF st.j > Min(Len(row_buf), Len(st.writers)) THEN st
    ELSE LET w == st.writers[st.j]
             r == BufWriterWrite(w, st.fs.disk[w.ino], row_buf[st.j], WriterCap)
         IN  ScatterRow(
                [j |-> st.j + 1,
                 fs |-> [st.fs EXCEPT !.disk[w.ino] = r.content],
                 writers |-> [st.writers EXCEPT ![st.j] = r.w],
                 touched |-> st.touched \/ r.inner],
                row_buf)

\* lines 503-511: the loop over the source rows;
\* st is [r, status, fs, input, writers, row_buf, short]
RECURSIVE JoinRows(_, _, _)
JoinRows(st, d, fault) ==
    IF st.r >= d.rows \/ st.status # "ok" THEN st
    ELSE IF fault.kind = "read" /\ fault.at = st.r
    THEN [st EXCEPT !.status = "err"]
    ELSE LET h == st.input
             got == ReadGot(ReadAt(st.fs.disk[h.ino], h.pos, d.cols), fault,
                            st.r)
             h1 == [h EXCEPT !.pos = h.pos + Len(got)]
             Scattered(buf, sc) ==
                 IF fault.kind = "scatter" /\ fault.at = st.r /\ sc.touched
                 \* output_row.1.write(..).unwrap() panics in the worker
                 THEN [st EXCEPT !.status = "panic", !.input = h1,
                                 !.row_buf = buf]
                 ELSE JoinRows(
                        [r |-> st.r + 1, status |-> "ok", fs |-> sc.fs,
                         input |-> h1, writers |-> sc.writers, row_buf |-> buf,
                         short |-> st.short \/ Len(got) < d.cols],
                        d, fault)
             Read(buf) ==
                 Scattered(buf, ScatterRow([j |-> 1, fs |-> st.fs,
                                            writers |-> st.writers,
                                            touched |-> FALSE], buf))
         IN  Read(ReadInto(st.row_buf, got))

\* lines 513-520: flush each writer and std::io::copy its file to the end of
\* the output; st is [j, ok, fs, outpos]
RECURSIVE JoinConcat(_, _, _, _)
JoinConcat(st, writers, out, fault) ==
    IF st.j > Len(writers) \/ ~st.ok THEN st
    ELSE IF fault.kind = "flush" /\ fault.at = st.j - 1
    THEN [st EXCEPT !.ok = FALSE]
    ELSE LET w == writers[st.j]
             f1 == [st.fs EXCEPT !.disk[w.ino] =
                        BufWriterFlush(w, st.fs.disk[w.ino])]
             data == f1.disk[w.ino]
         IN  IF fault.kind = "copy" /\ fault.at = st.j - 1
             THEN [j |-> st.j + 1, ok |-> FALSE, fs |-> f1,
                   outpos |-> st.outpos]
             ELSE JoinConcat(
                    [j |-> st.j + 1, ok |-> TRUE,
                     fs |-> [f1 EXCEPT !.disk[out] =
                                WriteAt(f1.disk[out], st.outpos, data)],
                     outpos |-> st.outpos + Len(data)],
                    writers, out, fault)

\* the io_result closure, lines 487-525
JoinTransform(f, h, out, d, fault) ==
    LET Joined(rw, cc) ==
            IF ~cc.ok
            THEN [status |-> "err",
                  fs |-> Dropped(cc.fs,
                                 SubSeq(rw.writers, cc.j, Len(rw.writers))),
                  input |-> rw.input, short |-> rw.short]
            ELSE IF fault.kind = "sync"
            THEN [status |-> "err", fs |-> cc.fs, input |-> rw.input,
                  short |-> rw.short]
            ELSE [status |-> "ok", fs |-> cc.fs, input |-> rw.input,
                  short |-> rw.short]
        Scattered(rw) ==
            IF rw.status # "ok"
            THEN [status |-> rw.status, fs |-> Dropped(rw.fs, rw.writers),
                  input |-> rw.input, short |-> rw.short]
            ELSE Joined(rw, JoinConcat([j |-> 1, ok |-> TRUE, fs |-> rw.fs,
                                        outpos |-> 0],
                                       rw.writers, out, fault))
        Created(c) ==
            IF ~c.ok
            THEN [status |-> "err", fs |-> Dropped(c.fs, c.writers),
                  input |-> h, short |-> FALSE]
            ELSE Scattered(JoinRows([r |-> 0, status |-> "ok", fs |-> c.fs,
                                     input |-> h, writers |-> c.writers,
                                     row_buf |-> Zeros(d.cols),
                                     short |-> FALSE], d, fault))
    IN  Created(JoinCreate([i |-> 0, ok |-> TRUE, fs |-> f, writers |-> <<>>],
                           d, fault))

\* the delete_result closure, lines 527-537: every index is visited, an
\* existing file is removed unless its removal fails, and the fold keeps the
\* first error
\* st is [i, fs, ok, tried]
RECURSIVE JoinDelete(_, _, _)
JoinDelete(st, d, delFail) ==
    IF st.i >= d.rows THEN st
    ELSE IF ~TmpExists(st.fs, st.i)
    THEN JoinDelete([st EXCEPT !.i = st.i + 1, !.tried = st.tried \cup {st.i}],
                    d, delFail)
    ELSE IF st.i \in delFail
    THEN JoinDelete([st EXCEPT !.i = st.i + 1, !.ok = FALSE,
                               !.tried = st.tried \cup {st.i}],
                    d, delFail)
    ELSE JoinDelete([st EXCEPT !.i = st.i + 1, !.fs = TmpRemove(st.fs, st.i),
                               !.tried = st.tried \cup {st.i}],
                    d, delFail)

\* delete_result.and(io_result): Result::and yields the error of the
\* receiver when it is an Err, and the argument otherwise
ResultAnd(first, second) == IF first # "ok" THEN first ELSE second

JoinFileHandles(f, h, d, fault, delFail) ==
    LET o == OpenCreate(f, "catted_cols.md", TRUE)
        Deleted(io, dl) ==
            LET io_result == IF io.status = "ok" THEN "ok" ELSE "transform"
                delete_result == IF dl.ok THEN "ok" ELSE "cleanup"
                both == ResultAnd(delete_result, io_result)
            IN  [fs |-> dl.fs, input |-> io.input,
                 out |-> IF both = "ok" THEN [ino |-> o.ino, pos |-> d.size]
                         ELSE NoHandle,
                 status |-> IF both = "ok" THEN "ok" ELSE "err",
                 error |-> both, io |-> io.status, cleanup |-> delete_result,
                 tried |-> dl.tried, short |-> io.short]
        Transformed(io) ==
            IF io.status = "panic"
            THEN [fs |-> io.fs, input |-> io.input, out |-> NoHandle,
                  status |-> "panic", error |-> "transform", io |-> io.status,
                  cleanup |-> "none", tried |-> {}, short |-> io.short]
            ELSE Deleted(io, JoinDelete([i |-> 0, fs |-> io.fs, ok |-> TRUE,
                                         tried |-> {}], d, delFail))
    IN  Transformed(JoinTransform(
            [o.fs EXCEPT !.disk[o.ino] = SetLen(<<>>, d.size)],
            [h EXCEPT !.pos = 0], o.ino, d, fault))

(***************************************************************************)
(* setup_file, src/main.rs 296-316.  `letters` is the 75-byte cycle        *)
(* a-z A-Z 0-9 !@#$^&*()-+[] as ASCII codes.                               *)
(***************************************************************************)
LettersLen == 75

Symbols == <<33, 64, 35, 36, 94, 38, 42, 40, 41, 45, 43, 91, 93>>

LettersByte(k) ==
    IF k < 26 THEN 97 + k
    ELSE IF k < 52 THEN 65 + (k - 26)
    ELSE IF k < 62 THEN 48 + (k - 52)
    ELSE Symbols[k - 61]

PatternMutant(size) == Tup([k \in 1..size |-> LettersByte((k - 1) % 26)])

\* the bytes the buffered writer puts down: size draws from the cycle
Pattern(size) == Tup([k \in 1..size |-> LettersByte((k - 1) % LettersLen)])

SetupFileMutant(f, d, target_file) ==
    [fs |-> [OpenCreate(f, target_file, FALSE).fs EXCEPT
                !.disk[OpenCreate(f, target_file, FALSE).ino] = Pattern(d.size)],
     out |-> [ino |-> OpenCreate(f, target_file, FALSE).ino, pos |-> d.size],
     status |-> "ok"]

SetupFile(f, d, target_file) ==
    LET o == OpenCreate(f, target_file, FALSE)
        old == o.fs.disk[o.ino]
    IN  IF Len(old) # d.size
        THEN [fs |-> [o.fs EXCEPT !.disk[o.ino] =
                         WriteAt(SetLen(old, d.size), 0, Pattern(d.size))],
              out |-> [ino |-> o.ino, pos |-> d.size], status |-> "ok"]
        ELSE [fs |-> o.fs, out |-> Handle(o.ino), status |-> "ok"]

(***************************************************************************)
(* file_eq_assert, src/main.rs 562-582.  Vec::with_capacity(n) is a vector *)
(* of length 0, and Read::read fills the slice it is given, which for an   *)
(* empty vector is the empty slice.                                        *)
(***************************************************************************)
input_size == 1024

VecWithCapacity(n) == <<>>

\* File::read into buf: up to Len(buf) bytes from the handle's position
FileRead(f, h, buf) ==
    LET got == ReadAt(f.disk[h.ino], h.pos, Len(buf))
    IN  [buf |-> ReadInto(buf, got), n |-> Len(got),
         h |-> [h EXCEPT !.pos = h.pos + Len(got)]]

RECURSIVE CompareLoop(_, _, _, _, _)
CompareLoop(f, a, b, input_buf_a, input_buf_b) ==
    LET ra == FileRead(f, a, input_buf_a)
        rb == FileRead(f, b, input_buf_b)
    IN  IF ra.n > 0
        THEN IF ra.buf # rb.buf
             THEN [result |-> FALSE, a |-> ra.h, b |-> rb.h]
             ELSE CompareLoop(f, ra.h, rb.h, ra.buf, rb.buf)
        ELSE [result |-> TRUE, a |-> ra.h, b |-> b]

FileEqAssertMutant(f, a, b) ==
    IF Len(f.disk[a.ino]) # Len(f.disk[b.ino])
    THEN [result |-> FALSE, a |-> [a EXCEPT !.pos = 0],
          b |-> [b EXCEPT !.pos = 0]]
    ELSE CompareLoop(f, [a EXCEPT !.pos = 0], [b EXCEPT !.pos = 0],
                     VecWithCapacity(input_size), VecWithCapacity(input_size))

FileEqAssert(f, a, b) ==
    IF Len(f.disk[a.ino]) # Len(f.disk[b.ino])
    THEN [result |-> FALSE, a |-> a, b |-> b]
    ELSE CompareLoop(f, [a EXCEPT !.pos = 0], [b EXCEPT !.pos = 0],
                     VecWithCapacity(input_size), VecWithCapacity(input_size))

(***************************************************************************)
(* The strategies, each run on the same input file (SpecStrategies).       *)
(* Every call is recorded in `ret` under the strategy's flag name with how *)
(* it ended, the handle it returned and the bytes of its output file when  *)
(* it returned.                                                            *)
(***************************************************************************)
InputPath == "input_file.md"

\* contents an input file of `size` bytes may have: setup_file's pattern, or
\* what an earlier file of the same length held (setup_file reuses it)
Inputs(size) ==
    {Pattern(size),
     Tup([k \in 1..size |-> size - k]),
     Tup([k \in 1..size |-> (k - 1) % 3])}

FsWithInput(content) ==
    [dir |-> (InputPath :> 1), tmp |-> <<>>, disk |-> <<content>>]

NoCli ==
    [log2_size |-> 0, check_work |-> FALSE, times |-> 1, in_memory |-> FALSE,
     mmap |-> FALSE, join |-> FALSE, on_disk |-> FALSE, buff_on_disk |-> FALSE,
     all |-> FALSE]

Ready == [at |-> "ready", i |-> 0]

Returned(r, f) ==
    [status |-> r.status, out |-> r.out, short |-> r.short,
     bytes |-> IF r.status = "ok" THEN f.disk[r.out.ino] ELSE <<>>]

InitStrategies ==
    /\ \E l \in 0..MaxLog2 :
          /\ cli = [NoCli EXCEPT !.log2_size = l]
          /\ dims = PlanDims(l)
    /\ buffCap \in (1..MaxBuffCap) \cup {BUFF_SIZE}
    /\ \E c \in Inputs(dims.size) : fs = FsWithInput(c)
    /\ hnd = [input_handle |-> Handle(1)]
    /\ pc = Ready
    /\ ret = <<>>

CallInMemory(fault) ==
    LET r == InMemory(fs, hnd.input_handle, dims, fault)
    IN  /\ "in_memory" \notin DOMAIN ret
        /\ fs' = r.fs
        /\ hnd' = [hnd EXCEPT !.input_handle = r.input]
        /\ ret' = ("in_memory" :> Returned(r, r.fs)) @@ ret

CallMmap ==
    LET r == MmapSolution(fs, dims)
    IN  /\ "mmap" \notin DOMAIN ret
        /\ fs' = r.fs
        /\ hnd' = hnd
        /\ ret' = ("mmap" :> Returned(r, r.fs)) @@ ret

CallDiskIo(fault) ==
    LET r == DiskIoSolution(fs, dims, fault)
    IN  /\ "on_disk" \notin DOMAIN ret
        /\ fs' = r.fs
        /\ hnd' = hnd
        /\ ret' = ("on_disk" :> Returned(r, r.fs)) @@ ret

CallBuffered(fault) ==
    LET r == BufferedDiskIoSolution(fs, dims, buffCap, fault)
    IN  /\ "buff_on_disk" \notin DOMAIN ret
        /\ fs' = r.fs
        /\ hnd' = hnd
        /\ ret' = ("buff_on_disk" :> Returned(r, r.fs)) @@ ret

CallJoin(fault, delFail) ==
    LET Return(r) ==
            /\ fs' = r.fs
            /\ hnd' = [hnd EXCEPT !.input_handle = r.input]
            /\ ret' = ("join" :> (Returned(r, r.fs) @@
                                  [error |-> r.error, io |-> r.io,
                                   cleanup |-> r.cleanup, tried |-> r.tried,
                                   fault |-> fault])) @@ ret
    IN  /\ "join" \notin DOMAIN ret
        /\ Return(JoinFileHandles(fs, hnd.input_handle, dims, fault, delFail))

StratInMemory == CallInMemory(NoFault) /\ UNCHANGED <<cli, dims, buffCap, pc>>

StratMmap == CallMmap /\ UNCHANGED <<cli, dims, buffCap, pc>>

StratDiskIo == CallDiskIo(NoFault) /\ UNCHANGED <<cli, dims, buffCap, pc>>

StratBuffered == CallBuffered(NoFault) /\ UNCHANGED <<cli, dims, buffCap, pc>>

StratJoin == CallJoin(NoFault, {}) /\ UNCHANGED <<cli, dims, buffCap, pc>>

NextStrategies ==
    \/ StratInMemory
    \/ StratMmap
    \/ StratDiskIo
    \/ StratBuffered
    \/ StratJoin

SpecStrategies == InitStrategies /\ [][NextStrategies]_vars

\* the input the strategies were given: inode 1 is never written by them
InputBytes == fs.disk[1]

Ran(s) == s \in DOMAIN ret

NonSquare == dims.rows > dims.cols /\ dims.cols > 1

DistinctInput ==
    \A a, b \in 1..Len(InputBytes) : a # b => InputBytes[a] # InputBytes[b]

\* C2: after in_memory on an input of exactly size bytes the call succeeded,
\* the output file has exactly size bytes and, for all i < rows and j < cols,
\* output byte j*rows+i is input byte i*cols+j.
InMemoryTransposes ==
    Ran("in_memory") =>
        /\ ret["in_memory"].status = "ok"
        /\ Len(ret["in_memory"].bytes) = dims.size
        /\ \A i \in 0..(dims.rows - 1), j \in 0..(dims.cols - 1) :
              ret["in_memory"].bytes[j * dims.rows + i + 1]
                  = InputBytes[i * dims.cols + j + 1]

InMemoryTransposesWitness ==
    /\ Ran("in_memory")
    /\ ret["in_memory"].status = "ok"
    /\ NonSquare
    /\ DistinctInput
    /\ ret["in_memory"].bytes # InputBytes

\* C1: any two strategies that ran on the same input with the same dims
\* left byte-identical outputs.
StrategiesAgree ==
    \A s, t \in DOMAIN ret :
        (ret[s].status = "ok" /\ ret[t].status = "ok")
            => ret[s].bytes = ret[t].bytes

\* C8: for every buffer capacity, the output of buffered_disk_io_solution is
\* byte-identical to the output of in_memory.
BufferedMatchesInMemory ==
    (Ran("buff_on_disk") /\ Ran("in_memory"))
        => /\ ret["buff_on_disk"].status = "ok"
           /\ ret["buff_on_disk"].bytes = ret["in_memory"].bytes

(***************************************************************************)
(* One call of one strategy while the operating system misbehaves once     *)
(* (SpecFaults): a transfer that moves fewer bytes than asked, or, in      *)
(* join_file_handles, a step that returns an error.                        *)
(***************************************************************************)
ShortReads(d) ==
    {[kind |-> "short_read", at |-> r, n |-> g] :
        r \in 0..(d.rows - 1), g \in 0..(d.cols - 1)}

\* a positional write that moves nothing
ShortWrites(d) ==
    {[kind |-> "short_write", at |-> w, n |-> 0] : w \in 0..(d.size - 1)}

\* the steps of the io_result closure that can return Err
JoinErrors(d) ==
    {[kind |-> k, at |-> a, n |-> 0] :
        k \in {"create", "read", "scatter", "flush", "copy"},
        a \in 0..(d.rows - 1)}
    \cup {[kind |-> "sync", at |-> 0, n |-> 0]}

InitFaults ==
    /\ \E l \in 0..MaxFaultLog2 :
          /\ cli = [NoCli EXCEPT !.log2_size = l]
          /\ dims = PlanDims(l)
    /\ buffCap \in (1..MaxBuffCap) \cup {BUFF_SIZE}
    /\ \E c \in Inputs(dims.size) : fs = FsWithInput(c)
    /\ hnd = [input_handle |-> Handle(1)]
    /\ pc = Ready
    /\ ret = <<>>

FaultInMemory ==
    /\ ret = <<>>
    /\ \E n \in 0..dims.size :
          CallInMemory([kind |-> "short_write", at |-> 0, n |-> n])
    /\ UNCHANGED <<cli, dims, buffCap, pc>>

FaultMmap ==
    /\ ret = <<>>
    /\ CallMmap
    /\ UNCHANGED <<cli, dims, buffCap, pc>>

FaultDiskIo ==
    /\ ret = <<>>
    /\ \E fault \in ShortReads(dims) \cup ShortWrites(dims) \cup {NoFault} :
          CallDiskIo(fault)
    /\ UNCHANGED <<cli, dims, buffCap, pc>>

FaultBuffered ==
    /\ ret = <<>>
    /\ \E fault \in ShortReads(dims) \cup ShortWrites(dims) \cup {NoFault} :
          CallBuffered(fault)
    /\ UNCHANGED <<cli, dims, buffCap, pc>>

FaultJoin ==
    /\ ret = <<>>
    /\ \E fault \in ShortReads(dims) \cup JoinErrors(dims) \cup {NoFault},
          delFail \in SUBSET (0..(dims.rows - 1)) :
          CallJoin(fault, delFail)
    /\ UNCHANGED <<cli, dims, buffCap, pc>>

NextFaults ==
    \/ FaultInMemory
    \/ FaultMmap
    \/ FaultDiskIo
    \/ FaultBuffered
    \/ FaultJoin

SpecFaults == InitFaults /\ [][NextFaults]_vars

\* C9: a call in which a read or a write moved fewer bytes than expected
\* does not end successfully.
ShortTransferFails ==
    \A s \in DOMAIN ret : ret[s].short => ret[s].status # "ok"

\* C6: when the transform step of join_file_handles failed and the cleanup
\* failed too, the error returned is the transform step's.
TransformErrorSurfaces ==
    (Ran("join") /\ ret["join"].io # "ok" /\ ret["join"].cleanup = "cleanup")
        => ret["join"].error = "transform"

\* C7: when join_file_handles has ended, the removal of every temp file
\* row-0 .. row-(rows-1) was attempted, and no temp file is left unless a
\* removal failed.
CleanupAlwaysAttempted ==
    Ran("join") =>
        /\ ret["join"].tried = 0..(dims.rows - 1)
        /\ ret["join"].cleanup # "cleanup" => DOMAIN fs.tmp = {}

(***************************************************************************)
(* file_eq_assert on two open files (SpecVerify).                          *)
(***************************************************************************)
RECURSIVE SeqsUpTo(_)
SeqsUpTo(n) ==
    IF n = 0 THEN {<<>>}
    ELSE SeqsUpTo(n - 1) \cup
         {Append(q, b) : q \in {x \in SeqsUpTo(n - 1) : Len(x) = n - 1},
                         b \in {0, 1}}

InitVerify ==
    /\ cli = NoCli
    /\ dims = PlanDims(0)
    /\ buffCap = BUFF_SIZE
    /\ \E a, b \in SeqsUpTo(MaxCmpLen) :
          /\ fs = [dir |-> ("in_memory.md" :> 1 @@ "mmap.md" :> 2),
                   tmp |-> <<>>, disk |-> <<a, b>>]
          /\ \E p \in 0..Len(a), q \in 0..Len(b) :
                hnd = [file_a |-> [ino |-> 1, pos |-> p],
                       file_b |-> [ino |-> 2, pos |-> q]]
    /\ pc = Ready
    /\ ret = <<>>

Verify ==
    LET r == FileEqAssert(fs, hnd.file_a, hnd.file_b)
    IN  /\ ret = <<>>
        /\ ret' = ("file_eq_assert" :> [result |-> r.result, before |-> hnd])
        /\ hnd' = [file_a |-> r.a, file_b |-> r.b]
        /\ UNCHANGED <<cli, dims, buffCap, fs, pc>>

NextVerify == Verify

SpecVerify == InitVerify /\ [][NextVerify]_vars

\* C3: file_eq_assert returns true only for files with the same bytes; two
\* files of equal length that differ in a byte make it return false.
VerifierDetectsDifference ==
    (Ran("file_eq_assert") /\ ret["file_eq_assert"].result)
        => fs.disk[hnd.file_a.ino] = fs.disk[hnd.file_b.ino]

\* C14: file_eq_assert on two files of different length returns false and
\* leaves both handles at the positions they had.
DifferentLengthsUntouched ==
    (Ran("file_eq_assert")
        /\ Len(fs.disk[hnd.file_a.ino]) # Len(fs.disk[hnd.file_b.ino]))
        => /\ ~ret["file_eq_assert"].result
           /\ hnd = ret["file_eq_assert"].before

DifferentLengthsUntouchedWitness ==
    /\ Ran("file_eq_assert")
    /\ Len(fs.disk[hnd.file_a.ino]) # Len(fs.disk[hnd.file_b.ino])
    /\ ret["file_eq_assert"].before.file_a.pos > 0
    /\ ret["file_eq_assert"].before.file_b.pos > 0
    /\ ~ret["file_eq_assert"].result

(***************************************************************************)
(* _main, src/main.rs 79-294.  pc.at is the stage the run is at and pc.i   *)
(* the number of calls the stage's `for _ in 0..cli.times` loop has made.  *)
(* A failed assert!, assert_eq! or unwrap ends the run at "aborted".       *)
(* cli.verbose is left out: sample_file only reads and moves the position  *)
(* of a handle, and every later use of a handle rewinds it first.          *)
(***************************************************************************)
NoDims == [size |-> 0, rows |-> 0, cols |-> 0]

At(stage) == [at |-> stage, i |-> 0]

Aborted == At("aborted")

ToggleMutant(c) == c

\* lines 86-92: `all` flips each of the five strategy flags
Toggle(c) ==
    IF c.all
    THEN [c EXCEPT !.in_memory = ~c.in_memory, !.mmap = ~c.mmap,
                   !.on_disk = ~c.on_disk, !.buff_on_disk = ~c.buff_on_disk,
                   !.join = ~c.join]
    ELSE c

\* lines 80-107: the dimensions, the toggled flags and how the checks end
Plan(c) ==
    LET d == PlanDims(c.log2_size)
        c1 == Toggle(c)
    IN  IF ~(d.rows >= d.cols)
        THEN [ok |-> FALSE, why |-> "rows < cols", dims |-> d, cli |-> c]
        ELSE IF ~(c.times > 0)
        THEN [ok |-> FALSE, why |-> "times", dims |-> d, cli |-> c]
        ELSE IF ~(~c1.check_work \/ c1.in_memory)
        THEN [ok |-> FALSE, why |-> "check_work", dims |-> d, cli |-> c1]
        ELSE IF d.cols * d.rows # d.size
        THEN [ok |-> FALSE, why |-> "cols * rows", dims |-> d, cli |-> c1]
        ELSE [ok |-> TRUE, why |-> "", dims |-> d, cli |-> c1]

Clis(maxLog2) ==
    [log2_size : 0..maxLog2, check_work : BOOLEAN, times : 0..MaxTimes,
     in_memory : BOOLEAN, mmap : BOOLEAN, join : BOOLEAN, on_disk : BOOLEAN,
     buff_on_disk : BOOLEAN, all : BOOLEAN]

EmptyFs == [dir |-> <<>>, tmp |-> <<>>, disk |-> <<>>]

MainPlan ==
    LET p == Plan(cli)
    IN  /\ pc.at = "start"
        /\ cli' = p.cli
        /\ dims' = p.dims
        /\ pc' = IF p.ok THEN At("setup") ELSE Aborted
        /\ ret' = ("plan" :> [ok |-> p.ok, why |-> p.why]) @@ ret
        /\ UNCHANGED <<buffCap, fs, hnd>>

InitPlan ==
    /\ cli \in Clis(MaxPlanLog2)
    /\ dims = NoDims
    /\ buffCap = BUFF_SIZE
    /\ fs = EmptyFs
    /\ hnd = <<>>
    /\ pc = At("start")
    /\ ret = <<>>

NextPlan == MainPlan

SpecPlan == InitPlan /\ [][NextPlan]_vars

\* C10: for every log2_size the planned dimensions satisfy rows*cols = size
\* and rows >= cols, so neither assertion on them fails.
PlannedDimsValid ==
    Ran("plan") =>
        /\ dims.size = Pow2(cli.log2_size)
        /\ dims.rows * dims.cols = dims.size
        /\ dims.rows >= dims.cols
        /\ ret["plan"].why \notin {"rows < cols", "cols * rows"}

PlannedDimsValidWitness ==
    /\ Ran("plan")
    /\ ret["plan"].ok
    /\ cli.log2_size = MaxPlanLog2
    /\ dims.rows * dims.cols = Pow2(MaxPlanLog2)

(***************************************************************************)
(* A whole run of _main (Spec).                                            *)
(***************************************************************************)
\* what the working directory may hold before the run: nothing, an input
\* file of another length, or one of the right length with any content
InitialFs(size) ==
    {EmptyFs, FsWithInput(Zeros(size + 1))}
    \cup {FsWithInput(c) : c \in Inputs(size)}

Init ==
    /\ cli \in Clis(MaxMainLog2)
    /\ dims = NoDims
    /\ buffCap = BUFF_SIZE
    /\ fs \in InitialFs(Pow2(cli.log2_size))
    /\ hnd = <<>>
    /\ pc = At("start")
    /\ ret = <<>>

\* File::open of an existing file
OpenPath(f, name) == Handle(f.dir[name])

\* lines 110-112
MainSetup ==
    LET r == SetupFile(fs, dims, InputPath)
    IN  /\ pc.at = "setup"
        /\ fs' = r.fs
        /\ hnd' = [input_handle |-> r.out, mem_file |-> NoHandle,
                   result_file |-> NoHandle]
        /\ pc' = At("in_memory")
        /\ UNCHANGED <<cli, dims, buffCap, ret>>

\* the stages after in_memory, in the order _main runs them
NextStage(stage) ==
    CASE stage = "in_memory" -> "mmap"
      [] stage = "mmap" -> "on_disk"
      [] stage = "on_disk" -> "buff_on_disk"
      [] stage = "buff_on_disk" -> "join"
      [] stage = "join" -> "done"

\* lines 161-165: in_memory is off, mem_file is the input file
MainInMemoryOff ==
    /\ pc.at = "in_memory"
    /\ ~cli.in_memory
    /\ hnd' = [hnd EXCEPT !.mem_file = OpenPath(fs, InputPath)]
    /\ pc' = At("mmap")
    /\ UNCHANGED <<cli, dims, buffCap, fs, ret>>

\* lines 125-129: one pass of the loop
MainInMemoryRun ==
    LET r == InMemory(fs, hnd.input_handle, dims, NoFault)
    IN  /\ pc.at = "in_memory"
        /\ cli.in_memory
        /\ pc.i < cli.times
        /\ fs' = r.fs
        /\ hnd' = [hnd EXCEPT !.input_handle = r.input,
                              !.mem_file = IF r.status = "ok" THEN r.out ELSE @]
        /\ pc' = IF r.status = "ok" THEN [pc EXCEPT !.i = pc.i + 1] ELSE Aborted
        /\ ret' = ("in_memory" :> Returned(r, r.fs)) @@ ret
        /\ UNCHANGED <<cli, dims, buffCap>>

\* lines 143-159: the in-memory result checked against a second run.
\* std::io::copy moves the bytes of mem_file from its position to its end.
SelfCheck(f, mem_file, d) ==
    LET temp == OpenCreate(f, "temp_transpose_file.md", TRUE)
        copied == ReadAt(temp.fs.disk[mem_file.ino], 0,
                         Len(temp.fs.disk[mem_file.ino]))
        f1 == [temp.fs EXCEPT !.disk[temp.ino] = copied]
        mem1 == [mem_file EXCEPT !.pos = Len(copied)]
        r == InMemory(f1, Handle(temp.ino), d, NoFault)
        eq == FileEqAssert(r.fs, mem1, r.out)
    IN  IF r.status # "ok"
        THEN [ok |-> FALSE, fs |-> r.fs, mem_file |-> mem1]
        ELSE IF ~eq.result
        THEN [ok |-> FALSE, fs |-> r.fs, mem_file |-> eq.a]
        ELSE [ok |-> TRUE,
              fs |-> Rename(r.fs, "temp_transpose_file.md", "in_memory.md"),
              mem_file |-> eq.a]

MainInMemoryDone ==
    LET c == SelfCheck(fs, hnd.mem_file, dims)
    IN  /\ pc.at = "in_memory"
        /\ cli.in_memory
        /\ pc.i = cli.times
        /\ IF cli.check_work
           THEN /\ fs' = c.fs
                /\ hnd' = [hnd EXCEPT !.mem_file = c.mem_file]
                /\ pc' = IF c.ok THEN At("mmap") ELSE Aborted
           ELSE /\ pc' = At("mmap")
                /\ UNCHANGED <<fs, hnd>>
        /\ UNCHANGED <<cli, dims, buffCap, ret>>

\* the flag of a stage is off: the stage is skipped
StageOff(stage) ==
    /\ pc.at = stage
    /\ ~cli[stage]
    /\ pc' = At(NextStage(stage))
    /\ UNCHANGED <<cli, dims, buffCap, fs, hnd, ret>>

\* one pass of a stage's loop; r is what the strategy call returned
StageRun(stage, r, input) ==
    /\ pc.at = stage
    /\ cli[stage]
    /\ pc.i < cli.times
    /\ fs' = r.fs
    /\ hnd' = [hnd EXCEPT !.input_handle = input,
                          !.result_file = IF r.status = "ok" THEN r.out ELSE @]
    /\ pc' = IF r.status = "ok" THEN [pc EXCEPT !.i = pc.i + 1] ELSE Aborted
    /\ ret' = (stage :> Returned(r, r.fs)) @@ ret
    /\ UNCHANGED <<cli, dims, buffCap>>

\* after the loop: `if cli.check_work && cli.in_memory { assert!(file_eq_assert(
\* &mut mem_file, &mut <result>)?) }`
StageDone(stage) ==
    LET eq == FileEqAssert(fs, hnd.mem_file, hnd.result_file)
    IN  /\ pc.at = stage
        /\ cli[stage]
        /\ pc.i = cli.times
        /\ IF cli.check_work /\ cli.in_memory
           THEN /\ hnd' = [hnd EXCEPT !.mem_file = eq.a, !.result_file = eq.b]
                /\ pc' = IF eq.result THEN At(NextStage(stage)) ELSE Aborted
           ELSE /\ pc' = At(NextStage(stage))
                /\ UNCHANGED hnd
        /\ UNCHANGED <<cli, dims, buffCap, fs, ret>>

MainMmapOff == StageOff("mmap")

MainMmapRun == StageRun("mmap", MmapSolution(fs, dims), hnd.input_handle)

MainMmapDone == StageDone("mmap")

MainDiskIoOff == StageOff("on_disk")

MainDiskIoRun ==
    StageRun("on_disk", DiskIoSolution(fs, dims, NoFault), hnd.input_handle)

MainDiskIoDone == StageDone("on_disk")

MainBufferedOff == StageOff("buff_on_disk")

MainBufferedRun ==
    StageRun("buff_on_disk", BufferedDiskIoSolution(fs, dims, BUFF_SIZE, NoFault),
             hnd.input_handle)

MainBufferedDone == StageDone("buff_on_disk")

MainJoinOff == StageOff("join")

MainJoinRun ==
    LET r == JoinFileHandles(fs, hnd.input_handle, dims, NoFault, {})
    IN  StageRun("join", r, r.input)

MainJoinDone == StageDone("join")

Next ==
    \/ MainPlan
    \/ MainSetup
    \/ MainInMemoryOff
    \/ MainInMemoryRun
    \/ MainInMemoryDone
    \/ MainMmapOff
    \/ MainMmapRun
    \/ MainMmapDone
    \/ MainDiskIoOff
    \/ MainDiskIoRun
    \/ MainDiskIoDone
    \/ MainBufferedOff
    \/ MainBufferedRun
    \/ MainBufferedDone
    \/ MainJoinOff
    \/ MainJoinRun
    \/ MainJoinDone

Spec == Init /\ [][Next]_vars

\* the transpose of `input` by the index formula: byte j*rows+i of the
\* result is byte i*cols+j of the input
Transposed(input, d) ==
    [k \in 1..Len(input) |->
        input[((k - 1) % d.rows) * d.cols + ((k - 1) \div d.rows) + 1]]

\* the bytes of the input file of the run
MainInput == fs.disk[fs.dir[InputPath]]

Comparing(stage) ==
    /\ pc.at = stage
    /\ pc.i = cli.times
    /\ cli[stage]
    /\ cli.check_work

\* C4: whenever the output of mmap, on_disk, buff_on_disk or join is about
\* to be compared, the reference handle mem_file holds the transpose of the
\* input file.
ReferenceIsTranspose ==
    \A stage \in {"mmap", "on_disk", "buff_on_disk", "join"} :
        Comparing(stage) =>
            \A k \in 1..dims.size :
                /\ Len(fs.disk[hnd.mem_file.ino]) = dims.size
                /\ fs.disk[hnd.mem_file.ino][k] = Transposed(MainInput, dims)[k]

\* the output path each strategy call opened, by stage
OutputPath(stage) ==
    CASE stage = "in_memory" -> "in_memory.md"
      [] stage = "mmap" -> "mmap.md"
      [] stage = "on_disk" -> DiskIoPath
      [] stage = "buff_on_disk" -> BufferedPath
      [] stage = "join" -> "catted_cols.md"

\* C5: no two distinct strategies open the same output path, so the file a
\* strategy returned is not the file another strategy returned.
OutputsDistinct ==
    \A s, t \in DOMAIN ret \ {"plan"} :
        (s # t /\ ret[s].status = "ok" /\ ret[t].status = "ok")
            => /\ OutputPath(s) # OutputPath(t)
               /\ ret[s].out.ino # ret[t].out.ino

(***************************************************************************)
(* in_memory applied to its own output (SpecTwice): the first call on the  *)
(* input file, then lines 143-159 of _main, which copy the result to       *)
(* temp_transpose_file.md and call in_memory on the copy with the same     *)
(* dims.  The second result lands in the file the first call returned.     *)
(***************************************************************************)
StratSelfCheck ==
    LET Return(c) ==
            /\ fs' = c.fs
            /\ ret' = ("self_check" :>
                          [status |-> IF c.ok THEN "ok" ELSE "panic",
                           out |-> c.mem_file, short |-> FALSE,
                           bytes |-> c.fs.disk[c.mem_file.ino]]) @@ ret
    IN  /\ Ran("in_memory")
        /\ ret["in_memory"].status = "ok"
        /\ ~Ran("self_check")
        /\ Return(SelfCheck(fs, ret["in_memory"].out, dims))
        /\ UNCHANGED <<cli, dims, buffCap, hnd, pc>>

NextTwice ==
    \/ StratInMemory
    \/ StratSelfCheck

SpecTwice == InitStrategies /\ [][NextTwice]_vars

\* C11 as stated: the second transpose gives back the original exactly when
\* rows = cols.
TwiceEqualOnlyIfSquare ==
    Ran("self_check") =>
        (ret["self_check"].bytes = InputBytes <=> dims.rows = dims.cols)

\* C11: the second transpose gives back the original whenever rows = cols or
\* cols = 1, and differs from it whenever rows > cols > 1 and the bytes of
\* the input are pairwise different.
TwiceEqualIffSquareOrColumn ==
    Ran("self_check") =>
        /\ (dims.rows = dims.cols \/ dims.cols = 1)
              => ret["self_check"].bytes = InputBytes
        /\ (NonSquare /\ DistinctInput)
              => ret["self_check"].bytes # InputBytes

TwiceEqualIffSquareOrColumnWitness ==
    /\ Ran("self_check")
    /\ NonSquare
    /\ DistinctInput
    /\ ret["self_check"].bytes # InputBytes
    /\ ret["self_check"].bytes # ret["in_memory"].bytes

(***************************************************************************)
(* setup_file called on its own, once or several times in a row on the     *)
(* same path (SpecSetup).  Before the first call the path is missing, or   *)
(* names a file that is shorter or longer than size, or one of exactly     *)
(* size bytes with some content.  ret.setup_file lists the calls made:     *)
(* whether the path existed, the file's bytes before and after.            *)
(***************************************************************************)
Ones(n) == Tup([k \in 1..n |-> 1])

SetupFsBefore(size) ==
    {EmptyFs, FsWithInput(<<>>), FsWithInput(Ones(size - 1)),
     FsWithInput(Ones(size + 1))}
    \cup {FsWithInput(c) : c \in Inputs(size)}

InitSetup ==
    /\ \E l \in 0..MaxSetupLog2 :
          /\ cli = [NoCli EXCEPT !.log2_size = l]
          /\ dims = PlanDims(l)
    /\ buffCap = BUFF_SIZE
    /\ fs \in SetupFsBefore(dims.size)
    /\ hnd = <<>>
    /\ pc = Ready
    /\ ret = <<>>

SetupCalls == IF Ran("setup_file") THEN ret["setup_file"] ELSE <<>>

SetupCall ==
    LET Return(r) ==
            /\ fs' = r.fs
            /\ hnd' = [input_handle |-> r.out]
            /\ ret' = [setup_file |->
                         Append(SetupCalls,
                                [existed |-> Exists(fs, InputPath),
                                 before |-> IF Exists(fs, InputPath)
                                            THEN fs.disk[fs.dir[InputPath]]
                                            ELSE <<>>,
                                 after |-> r.fs.disk[r.out.ino],
                                 out |-> r.out])]
    IN  /\ pc.i < MaxSetupCalls
        /\ pc' = [pc EXCEPT !.i = pc.i + 1]
        /\ Return(SetupFile(fs, dims, InputPath))
        /\ UNCHANGED <<cli, dims, buffCap>>

NextSetup == SetupCall

SpecSetup == InitSetup /\ [][NextSetup]_vars

\* the call found a file of exactly size bytes at the path
Fitting(c) == c.existed /\ Len(c.before) = dims.size

\* C12: a call of setup_file that finds a file of exactly size bytes leaves
\* its bytes and its length as they were, whatever they are, and a call
\* that follows another leaves the bytes as the earlier call left them.
SetupKeepsFittingFile ==
    \A k \in 1..Len(SetupCalls) :
        /\ Fitting(SetupCalls[k]) => SetupCalls[k].after = SetupCalls[k].before
        /\ k > 1 => SetupCalls[k].after = SetupCalls[k - 1].after

SetupKeepsFittingFileWitness ==
    /\ Len(SetupCalls) = 2
    /\ Fitting(SetupCalls[1])
    /\ dims.size > 1
    /\ SetupCalls[1].before[1] # LettersByte(0)
    /\ SetupCalls[2].after = SetupCalls[1].before

\* C13: a call of setup_file that finds no file, or a file whose length is
\* not size, leaves a file of exactly size bytes whose byte at offset k is
\* letter k mod LettersLen of the cycle.
SetupWritesPattern ==
    \A k \in 1..Len(SetupCalls) :
        ~Fitting(SetupCalls[k]) =>
            /\ Len(SetupCalls[k].after) = dims.size
            /\ \A o \in 0..(dims.size - 1) :
                  SetupCalls[k].after[o + 1] = LettersByte(o % LettersLen)

SetupWritesPatternWitness ==
    /\ Len(SetupCalls) >= 1
    /\ SetupCalls[1].existed
    /\ Len(SetupCalls[1].before) = dims.size + 1
    /\ dims.size > LettersLen
    /\ SetupCalls[1].after[LettersLen + 1] = LettersByte(0)

(***************************************************************************)
(* buffered_disk_io_solution one source row at a time (SpecBufferedLoop):  *)
(* the output is opened and sized, each step is one pass of the loop over  *)
(* row_index, and the call returns after the last pass.  ret.locals holds  *)
(* the loop's variables between passes.                                    *)
(***************************************************************************)
BufferedOpen ==
    LET Opened(o) ==
            /\ fs' = [o.fs EXCEPT !.disk[o.ino] = SetLen(<<>>, dims.size)]
            /\ hnd' = [input_handle |-> hnd.input_handle,
                       output_file |-> Handle(o.ino)]
            /\ ret' = [locals |-> BufferedStart(SetLen(<<>>, dims.size), dims)]
    IN  /\ pc.at = "ready"
        /\ Opened(OpenCreate(fs, BufferedPath, TRUE))
        /\ pc' = At("rows")
        /\ UNCHANGED <<cli, dims, buffCap>>

BufferedStep ==
    LET Passed(st) ==
            /\ ret' = [ret EXCEPT !.locals = st]
            /\ fs' = [fs EXCEPT !.disk[hnd.output_file.ino] = st.out]
    IN  /\ pc.at = "rows"
        /\ ret.locals.row_index < dims.rows
        /\ Passed(BufferedRow(ret.locals, InputBytes, dims, buffCap, NoFault))
        /\ UNCHANGED <<cli, dims, buffCap, hnd, pc>>

BufferedClose ==
    /\ pc.at = "rows"
    /\ ret.locals.row_index >= dims.rows
    /\ pc' = At("returned")
    /\ UNCHANGED <<cli, dims, buffCap, fs, hnd, ret>>

NextBufferedLoop ==
    \/ BufferedOpen
    \/ BufferedStep
    \/ BufferedClose

SpecBufferedLoop == InitStrategies /\ [][NextBufferedLoop]_vars

\* the accumulators after the pass over a source row: equally long, as long
\* as the rows absorbed since the last flush, within the capacity, and
\* empty after the last row
AccumulatorsInStep(st) ==
    /\ \A c \in 1..dims.cols :
          Len(st.output_buff_buff[c]) = st.row_index - st.write_index
    /\ st.row_index - st.write_index <= buffCap
    /\ st.row_index = dims.rows => st.write_index = dims.rows

\* the column whose flushed bytes cover output offset x, or -1
FlushedColumn(x, write_index, n) ==
    IF \E c \in 0..(dims.cols - 1) :
          x - write_index - c * dims.rows \in 0..(n - 1)
    THEN CHOOSE c \in 0..(dims.cols - 1) :
            x - write_index - c * dims.rows \in 0..(n - 1)
    ELSE -1

\* a pass from st to st2 either flushes (every accumulator c, with the byte
\* of this row, lands at write_index + c*rows and write_index becomes the
\* number of rows absorbed) or leaves the output and write_index alone
FlushInStep(st, st2) ==
    IF st2.write_index # st.write_index
    THEN /\ st2.write_index = st2.row_index
         /\ \A x \in 0..(dims.size - 1) :
               st2.out[x + 1] =
                  IF FlushedColumn(x, st.write_index,
                                   st2.row_index - st.write_index) >= 0
                  THEN Append(
                         st.output_buff_buff[
                            FlushedColumn(x, st.write_index,
                                st2.row_index - st.write_index) + 1],
                         st2.input_row_buff[
                            FlushedColumn(x, st.write_index,
                                st2.row_index - st.write_index) + 1])
                       [x - st.write_index
                          - FlushedColumn(x, st.write_index,
                                st2.row_index - st.write_index) * dims.rows
                          + 1]
                  ELSE st.out[x + 1]
    ELSE st2.out = st.out

\* C15: every pass of the loop of buffered_disk_io_solution leaves the
\* accumulators equally long, of length rows absorbed minus write_index and
\* at most the capacity; a flush writes accumulator c at write_index + c*rows,
\* empties the accumulators and moves write_index to the rows absorbed; and
\* the pass over the last row flushes.
BufferedLoopKeeps ==
    [][(pc.at = "rows" /\ pc'.at = "rows")
          => /\ AccumulatorsInStep(ret'.locals)
             /\ ret'.locals.row_index = ret.locals.row_index + 1
             /\ FlushInStep(ret.locals, ret'.locals)]_vars

BufferedLoopKeepsWitness ==
    /\ pc.at = "returned"
    /\ buffCap > 1
    /\ buffCap < dims.rows
    /\ dims.cols > 1
    /\ ret.locals.flushes > 2
    /\ ret.locals.write_index = dims.rows

(***************************************************************************)
(* The parallel scatters, one worker task at a time (SpecScatter).         *)
(* (&mut dest, &row).into_par_iter().for_each(f) pairs destination c with  *)
(* byte c, for c below the length of the shorter of the two, and runs f    *)
(* once on every pair, the pairs in any order.  Both strategies are run    *)
(* whole; between the read of a source row and the end of its scatter the  *)
(* tasks still to run are ret.pending, and ret.touched counts the tasks    *)
(* that have touched each destination.  ret.before is what the             *)
(* destinations held when the scatter began.                               *)
(***************************************************************************)
\* the closure of buffered_disk_io_solution: |(row_buf, row_entry)|
\* row_buf.push(*row_entry), on pair c
PushTaskMutant(output_buff_buff, input_row_buff, c) ==
    [output_buff_buff EXCEPT ![1] = Append(@, input_row_buff[c])]

PushTask(output_buff_buff, input_row_buff, c) ==
    [output_buff_buff EXCEPT ![c] = Append(@, input_row_buff[c])]

\* the closure of join_file_handles: |(input_byte, output_row)|
\* output_row.1.write(&[*input_byte]).unwrap(), on pair c; st is [fs, writers]
WriteTask(st, row_buf, c) ==
    LET Written(r) ==
            [fs |-> [st.fs EXCEPT !.disk[st.writers[c].ino] = r.content],
             writers |-> [st.writers EXCEPT ![c] = r.w]]
    IN  Written(BufWriterWrite(st.writers[c], st.fs.disk[st.writers[c].ino],
                               row_buf[c], WriterCap))

NoTouch(n) == Tup([c \in 1..n |-> 0])

ParBufferedOpen ==
    LET Opened(o) ==
            /\ fs' = [o.fs EXCEPT !.disk[o.ino] = SetLen(<<>>, dims.size)]
            /\ hnd' = [input_handle |-> hnd.input_handle,
                       output_file |-> Handle(o.ino)]
            /\ ret' = [locals |-> BufferedStart(SetLen(<<>>, dims.size), dims),
                       pending |-> {}, touched |-> NoTouch(dims.cols),
                       before |-> <<>>]
    IN  /\ pc.at = "ready"
        /\ Opened(OpenCreate(fs, BufferedPath, TRUE))
        /\ pc' = At("buffered_read")
        /\ UNCHANGED <<cli, dims, buffCap>>

\* line 442, and the split of the zip into tasks
ParBufferedRead ==
    LET Got(rd) ==
            ret' = [locals |-> [ret.locals EXCEPT
                                   !.reader = rd.reader,
                                   !.input_row_buff = ReadInto(@, rd.got),
                                   !.short = @ \/ Len(rd.got) < dims.cols],
                    pending |-> 1..Min(Len(ret.locals.output_buff_buff),
                                       Len(ret.locals.input_row_buff)),
                    touched |-> NoTouch(dims.cols),
                    before |-> ret.locals.output_buff_buff]
    IN  /\ pc.at = "buffered_read"
        /\ ret.locals.row_index < dims.rows
        /\ Got(BufReaderRead(ret.locals.reader, InputBytes, dims.cols,
                             ReaderCap(buffCap), NoFault,
                             ret.locals.row_index))
        /\ pc' = At("buffered_scatter")
        /\ UNCHANGED <<cli, dims, buffCap, fs, hnd>>

ParBufferedTask ==
    /\ pc.at = "buffered_scatter"
    /\ \E c \in ret.pending :
          ret' = [ret EXCEPT
                     !.locals.output_buff_buff =
                         PushTask(@, ret.locals.input_row_buff, c),
                     !.pending = @ \ {c},
                     !.touched[c] = @ + 1]
    /\ UNCHANGED <<cli, dims, buffCap, fs, hnd, pc>>

\* lines 446-458, after for_each has returned
ParBufferedEndRow ==
    LET st == ret.locals
        Flushed(out) ==
            /\ ret' = [ret EXCEPT
                          !.locals.row_index = @ + 1,
                          !.locals.output_buff_buff =
                              Tup([c \in 1..dims.cols |-> <<>>]),
                          !.locals.write_index = st.row_index + 1,
                          !.locals.out = out,
                          !.locals.flushes = @ + 1]
            /\ fs' = [fs EXCEPT !.disk[hnd.output_file.ino] = out]
    IN  /\ pc.at = "buffered_scatter"
        /\ ret.pending = {}
        /\ IF FlushDue(Len(st.output_buff_buff[1]), buffCap, st.row_index,
                       dims.rows)
           THEN Flushed(FlushCols([c |-> 0, out |-> st.out],
                                  st.output_buff_buff, st.write_index, dims,
                                  NoFault, st.flushes * dims.cols).out)
           ELSE /\ ret' = [ret EXCEPT !.locals.row_index = @ + 1]
                /\ fs' = fs
        /\ pc' = At("buffered_read")
        /\ UNCHANGED <<cli, dims, buffCap, hnd>>

ParBufferedClose ==
    /\ pc.at = "buffered_read"
    /\ ret.locals.row_index >= dims.rows
    /\ pc' = At("returned")
    /\ UNCHANGED <<cli, dims, buffCap, fs, hnd, ret>>

\* lines 474-500: the output file and the rows temp files
ParJoinOpen ==
    LET Created(o, c) ==
            /\ fs' = c.fs
            /\ hnd' = [input_handle |-> [hnd.input_handle EXCEPT !.pos = 0],
                       output_file |-> Handle(o.ino)]
            /\ ret' = [locals |-> [r |-> 0, writers |-> c.writers,
                                   row_buf |-> Zeros(dims.cols)],
                       pending |-> {}, touched |-> NoTouch(dims.rows),
                       before |-> <<>>]
        Opened(o) ==
            Created(o, JoinCreate(
                          [i |-> 0, ok |-> TRUE,
                           fs |-> [o.fs EXCEPT !.disk[o.ino] =
                                      SetLen(<<>>, dims.size)],
                           writers |-> <<>>], dims, NoFault))
    IN  /\ pc.at = "ready"
        /\ Opened(OpenCreate(fs, "catted_cols.md", TRUE))
        /\ pc' = At("join_read")
        /\ UNCHANGED <<cli, dims, buffCap>>

\* line 505, and the split of the zip into tasks
ParJoinRead ==
    LET h == hnd.input_handle
        Got(got) ==
            /\ hnd' = [hnd EXCEPT !.input_handle.pos = @ + Len(got)]
            /\ ret' = [locals |-> [ret.locals EXCEPT
                                      !.row_buf = ReadInto(@, got)],
                       pending |-> 1..Min(Len(ret.locals.row_buf),
                                          Len(ret.locals.writers)),
                       touched |-> NoTouch(dims.rows),
                       before |-> [fs |-> fs, writers |-> ret.locals.writers]]
    IN  /\ pc.at = "join_read"
        /\ ret.locals.r < dims.rows
        /\ Got(ReadAt(fs.disk[h.ino], h.pos, dims.cols))
        /\ pc' = At("join_scatter")
        /\ UNCHANGED <<cli, dims, buffCap, fs>>

ParJoinTask ==
    LET Done(c, st) ==
            /\ fs' = st.fs
            /\ ret' = [ret EXCEPT !.locals.writers = st.writers,
                                  !.pending = @ \ {c},
                                  !.touched[c] = @ + 1]
    IN  /\ pc.at = "join_scatter"
        /\ \E c \in ret.pending :
              Done(c, WriteTask([fs |-> fs, writers |-> ret.locals.writers],
                                ret.locals.row_buf, c))
        /\ UNCHANGED <<cli, dims, buffCap, hnd, pc>>

ParJoinEndRow ==
    /\ pc.at = "join_scatter"
    /\ ret.pending = {}
    /\ ret' = [ret EXCEPT !.locals.r = @ + 1]
    /\ pc' = At("join_read")
    /\ UNCHANGED <<cli, dims, buffCap, fs, hnd>>

\* lines 513-522: every writer flushed and its file copied to the output
ParJoinConcat ==
    LET Joined(cc) ==
            /\ fs' = cc.fs
            /\ hnd' = [hnd EXCEPT !.output_file.pos = cc.outpos]
    IN  /\ pc.at = "join_read"
        /\ ret.locals.r >= dims.rows
        /\ Joined(JoinConcat([j |-> 1, ok |-> TRUE, fs |-> fs, outpos |-> 0],
                             ret.locals.writers, hnd.output_file.ino, NoFault))
        /\ pc' = At("join_delete")
        /\ UNCHANGED <<cli, dims, buffCap, ret>>

\* lines 527-539
ParJoinDelete ==
    /\ pc.at = "join_delete"
    /\ fs' = JoinDelete([i |-> 0, fs |-> fs, ok |-> TRUE, tried |-> {}],
                        dims, {}).fs
    /\ pc' = At("returned")
    /\ UNCHANGED <<cli, dims, buffCap, hnd, ret>>

NextScatter ==
    \/ ParBufferedOpen
    \/ ParBufferedRead
    \/ ParBufferedTask
    \/ ParBufferedEndRow
    \/ ParBufferedClose
    \/ ParJoinOpen
    \/ ParJoinRead
    \/ ParJoinTask
    \/ ParJoinEndRow
    \/ ParJoinConcat
    \/ ParJoinDelete

SpecScatter == InitStrategies /\ [][NextScatter]_vars

\* the bytes a temp-file writer has taken so far: those in its file and
\* those still in its buffer
Held(w, f) == f.disk[w.ino] \o w.buf

\* destination c has been given byte c by a task of this scatter
Served(c) == c <= dims.cols /\ c \notin ret.pending

\* the accumulators during and after the scatter of a row
AccumulatorsScattered ==
    /\ \A c \in 1..dims.cols :
          /\ ret.touched[c] = IF Served(c) THEN 1 ELSE 0
          /\ ret.locals.output_buff_buff[c] =
                IF Served(c)
                THEN Append(ret.before[c], ret.locals.input_row_buff[c])
                ELSE ret.before[c]
    /\ ret.pending = {} =>
          ret.locals.output_buff_buff
              = Scatter(ret.before, ret.locals.input_row_buff)

\* the temp-file writers during and after the scatter of a row
WritersScattered ==
    /\ \A c \in 1..Len(ret.locals.writers) :
          Held(ret.locals.writers[c], fs) =
             IF Served(c)
             THEN Append(Held(ret.before.writers[c], ret.before.fs),
                         ret.locals.row_buf[c])
             ELSE Held(ret.before.writers[c], ret.before.fs)
    /\ ret.pending = {} =>
          /\ fs = ScatterRow([j |-> 1, fs |-> ret.before.fs,
                              writers |-> ret.before.writers,
                              touched |-> FALSE], ret.locals.row_buf).fs
          /\ ret.locals.writers
                = ScatterRow([j |-> 1, fs |-> ret.before.fs,
                              writers |-> ret.before.writers,
                              touched |-> FALSE], ret.locals.row_buf).writers

\* C16 as stated: when the scatter of a row has ended, every accumulator and
\* every temp-file writer has been touched by exactly one task and the state
\* is that of the sequential scatter.
ScatterTouchesEveryDestination ==
    /\ (pc.at = "buffered_scatter" /\ ret.pending = {}) =>
          /\ \A c \in 1..Len(ret.locals.output_buff_buff) : ret.touched[c] = 1
          /\ AccumulatorsScattered
    /\ (pc.at = "join_scatter" /\ ret.pending = {}) =>
          /\ \A c \in 1..Len(ret.locals.writers) : ret.touched[c] = 1
          /\ WritersScattered

\* C16: under every order of the tasks of a scatter, each accumulator and
\* each temp-file writer with an index below cols is touched by exactly one
\* task and receives the byte of its index, the temp-file writers with an
\* index from cols on are touched by none, and the state after the scatter
\* is that of the sequential scatter in index order.
ScatterIsSequential ==
    /\ pc.at = "buffered_scatter" => AccumulatorsScattered
    /\ pc.at = "join_scatter" =>
          /\ \A c \in 1..Len(ret.locals.writers) :
                ret.touched[c] = IF Served(c) THEN 1 ELSE 0
          /\ WritersScattered

ScatterIsSequentialWitness ==
    /\ pc.at = "join_scatter"
    /\ dims.cols > 2
    /\ ret.locals.r > WriterCap
    /\ 1 \in ret.pending
    /\ 2 \notin ret.pending
    /\ ret.touched[dims.cols] = 1

\* C17: when every source row is processed and every writer flushed, temp
\* file j holds the bytes of column j in row order (byte k is input byte
\* k*cols+j), the temp files from cols on are empty, and the output is the
\* temp files in index order, size bytes in all.
TempFilesHoldColumns ==
    pc.at = "join_delete" =>
        /\ \A j \in 0..(dims.rows - 1) :
              /\ Len(fs.disk[fs.tmp[j]]) = IF j < dims.cols THEN dims.rows ELSE 0
              /\ \A k \in 0..(Len(fs.disk[fs.tmp[j]]) - 1) :
                    /\ fs.disk[fs.tmp[j]][k + 1] = InputBytes[k * dims.cols + j + 1]
                    /\ fs.disk[hnd.output_file.ino][j * dims.rows + k + 1]
                          = fs.disk[fs.tmp[j]][k + 1]
        /\ Len(fs.disk[hnd.output_file.ino]) = dims.size
        /\ hnd.output_file.pos = dims.size

TempFilesHoldColumnsWitness ==
    /\ pc.at = "join_delete"
    /\ NonSquare
    /\ DistinctInput
    /\ dims.rows > WriterCap
    /\ Len(fs.disk[fs.tmp[dims.cols - 1]]) = dims.rows
    /\ Len(fs.disk[fs.tmp[dims.cols]]) = 0

(***************************************************************************)
(* disk_io_solution write by write, src/main.rs 386-416: the open with     *)
(* set_len, the read_at of a source row, one write_at per step, the        *)
(* return.  ret.locals holds i, j and input_row_buf; ret.writes lists for  *)
(* every write_at its offset, the number of bytes handed to it and the     *)
(* length of the output file when it was made.                             *)
(***************************************************************************)
DiskIoOpen ==
    LET Opened(o) ==
            /\ fs' = [o.fs EXCEPT !.disk[o.ino] = SetLen(<<>>, dims.size)]
            /\ hnd' = [input_handle |-> hnd.input_handle,
                       output_file |-> Handle(o.ino)]
    IN  /\ pc.at = "ready"
        /\ Opened(OpenCreate(fs, DiskIoPath, TRUE))
        /\ ret' = [locals |-> [i |-> 0, j |-> 0,
                               input_row_buf |-> Zeros(dims.cols)],
                   writes |-> <<>>]
        /\ pc' = At("disk_read")
        /\ UNCHANGED <<cli, dims, buffCap>>

DiskIoRead ==
    /\ pc.at = "disk_read"
    /\ ret.locals.i < dims.rows
    /\ ret' = [ret EXCEPT
                  !.locals.input_row_buf =
                      ReadInto(@, ReadAt(InputBytes, ret.locals.i * dims.cols,
                                         dims.cols)),
                  !.locals.j = 0]
    /\ pc' = At("disk_write")
    /\ UNCHANGED <<cli, dims, buffCap, fs, hnd>>

DiskIoWrite ==
    LET i == ret.locals.i
        j == ret.locals.j
        out == hnd.output_file.ino
    IN  /\ pc.at = "disk_write"
        /\ j < dims.cols
        /\ fs' = [fs EXCEPT !.disk[out] =
                     WriteAt(@, DstIndex(i, j, dims.rows, dims.cols),
                             <<ret.locals.input_row_buf[j + 1]>>)]
        /\ ret' = [ret EXCEPT
                      !.locals.j = @ + 1,
                      !.writes = Append(@,
                          [off |-> DstIndex(i, j, dims.rows, dims.cols),
                           n |-> Len(<<ret.locals.input_row_buf[j + 1]>>),
                           len |-> Len(fs.disk[out])])]
        /\ UNCHANGED <<cli, dims, buffCap, hnd, pc>>

DiskIoEndRow ==
    /\ pc.at = "disk_write"
    /\ ret.locals.j >= dims.cols
    /\ ret' = [ret EXCEPT !.locals.i = @ + 1, !.locals.j = 0]
    /\ pc' = At("disk_read")
    /\ UNCHANGED <<cli, dims, buffCap, fs, hnd>>

DiskIoClose ==
    /\ pc.at = "disk_read"
    /\ ret.locals.i >= dims.rows
    /\ pc' = At("returned")
    /\ UNCHANGED <<cli, dims, buffCap, fs, hnd, ret>>

NextDiskIo ==
    \/ DiskIoOpen
    \/ DiskIoRead
    \/ DiskIoWrite
    \/ DiskIoEndRow
    \/ DiskIoClose

SpecDiskIo == InitStrategies /\ [][NextDiskIo]_vars

\* C18: disk_io_solution makes rows*cols positional writes of one byte each;
\* the write for source row i and column j goes to offset j*rows+i; the
\* offsets are pairwise distinct, none lies outside the size bytes the file
\* was given by set_len, and at the return they are all of 0..size-1.
DiskIoWritesCoverOutput ==
    pc.at \in {"disk_read", "disk_write", "returned"} =>
        /\ Len(ret.writes) = ret.locals.i * dims.cols + ret.locals.j
        /\ Len(fs.disk[hnd.output_file.ino]) = dims.size
        /\ \A a \in 1..Len(ret.writes) :
              /\ ret.writes[a].n = 1
              /\ ret.writes[a].len = dims.size
              /\ ret.writes[a].off \in 0..(ret.writes[a].len - 1)
              /\ ret.writes[a].off
                    = ((a - 1) % dims.cols) * dims.rows + ((a - 1) \div dims.cols)
              /\ \A b \in 1..Len(ret.writes) :
                    a # b => ret.writes[a].off # ret.writes[b].off
        /\ pc.at = "returned" =>
              /\ Len(ret.writes) = dims.rows * dims.cols
              /\ {ret.writes[a].off : a \in 1..Len(ret.writes)}
                    = 0..(dims.size - 1)

DiskIoWritesCoverOutputWitness ==
    /\ pc.at = "returned"
    /\ NonSquare
    /\ Len(ret.writes) = dims.size
    /\ ret.writes[2].off = dims.rows

\* C20: the step of _main from its start ends the run, with every file and
\* handle as it was, when times is 0 or when check_work is set and in_memory
\* is off once `all` has flipped it; for every other combination of the
\* flags it goes on to the setup of the input file.
StartAbortsOrSetsUp ==
    [][pc.at = "start" =>
          IF cli.times = 0 \/ (cli.check_work /\ cli.in_memory = cli.all)
          THEN pc' = Aborted /\ fs' = fs /\ hnd' = hnd
          ELSE pc' = At("setup") /\ fs' = fs /\ hnd' = hnd]_vars

StartAbortsOrSetsUpWitness ==
    /\ Ran("plan")
    /\ pc = Aborted
    /\ ret["plan"].why = "check_work"
    /\ cli.times > 0
    /\ cli.all
    /\ ~cli.in_memory
    /\ Exists(fs, "input_file.md")

(***************************************************************************)
(* One strategy called again and again, as the `for _ in 0..cli.times`     *)
(* loops of _main do (src/main.rs 125-129, 173-177, 203-207, 236-241,      *)
(* 271-275).  pc.at is the strategy, pc.i the calls made, and ret the list *)
(* of what each call returned with the bytes of its output file.           *)
(***************************************************************************)
RepeatRun(stage, r, input) ==
    /\ pc.at \in {"ready", stage}
    /\ pc.i < MaxTimes
    /\ fs' = r.fs
    /\ hnd' = [hnd EXCEPT !.input_handle = input]
    /\ pc' = [at |-> stage, i |-> pc.i + 1]
    /\ ret' = Append(ret, Returned(r, r.fs))
    /\ UNCHANGED <<cli, dims, buffCap>>

RepeatInMemory ==
    LET r == InMemory(fs, hnd.input_handle, dims, NoFault)
    IN  RepeatRun("in_memory", r, r.input)

RepeatMmap == RepeatRun("mmap", MmapSolution(fs, dims), hnd.input_handle)

RepeatDiskIo ==
    RepeatRun("on_disk", DiskIoSolution(fs, dims, NoFault), hnd.input_handle)

RepeatBuffered ==
    RepeatRun("buff_on_disk",
              BufferedDiskIoSolution(fs, dims, buffCap, NoFault),
              hnd.input_handle)

RepeatJoin ==
    LET r == JoinFileHandles(fs, hnd.input_handle, dims, NoFault, {})
    IN  RepeatRun("join", r, r.input)

NextRepeat ==
    \/ RepeatInMemory
    \/ RepeatMmap
    \/ RepeatDiskIo
    \/ RepeatBuffered
    \/ RepeatJoin

SpecRepeat == InitStrategies /\ [][NextRepeat]_vars

\* C19: every call of a strategy repeated on the same input succeeds and
\* leaves its output file with the size bytes the first call left, and the
\* file behind the handle the last call returned holds those bytes.
RepeatedRunsLeaveOneResult ==
    \A k \in 1..Len(ret) :
        /\ ret[k].status = "ok"
        /\ Len(ret[k].bytes) = dims.size
        /\ ret[k].bytes = ret[1].bytes
        /\ k = Len(ret) =>
              /\ k = pc.i
              /\ fs.disk[ret[k].out.ino] = ret[1].bytes

RepeatedRunsLeaveOneResultWitness ==
    /\ pc.at = "mmap"
    /\ pc.i > 1
    /\ Len(ret) = pc.i
    /\ NonSquare
    /\ DistinctInput
    /\ fs.disk[ret[pc.i].out.ino] = ret[1].bytes

====
